---- MODULE Spec2Model ----
(***************************************************************************)
(* Subscription billing: the PortOne webhook handler (POST), the payment   *)
(* ledger it appends to, the provider's pending schedules, and the         *)
(* subscription status hook (usePaymentStatus) that re-derives the status  *)
(* from the ledger.                                                        *)
(*                                                                         *)
(* Instants are whole minutes since an epoch whose minute 0 is a midnight. *)
(***************************************************************************)
EXTENDS Integers, Sequences, FiniteSets

\* ------------------------------------------------------------------ bounds
MaxLedger == 3
MaxClock == 1
MaxRows == 2

\* ------------------------------------------------------- program constants
DayMinutes == 1440
PeriodDays == 30
GraceDays == 31
ScheduleHour == 10
MinutesPerHour == 60

\* ---------------------------------------------------------- input domains
Procs == {1, 2}
PaymentIds == {"k1", "k2"}
EventStatuses == {"Paid", "Cancelled", "Ready"}
NoKey == "none"
Elapsed == {0, 1}
MinuteDraws == {15}
AllMinuteDraws == 0..(MinutesPerHour - 1)
ServerZone == 0
ZoneOffsets == {0, 540}
ChargeInstants == {0, 599, 600, 615, 659, 660, 900, 1439}
NowOffsets == {0, GraceDays * DayMinutes + 1}
FetchOutcomes == {"ok", "fail"}
InsertOutcomes == {"ok", "error"}
SelectOutcomes == {"ok", "error"}
CallOutcomes == {"ok", "nonOk", "throw"}

NoRow == [id |-> 0]
NoData == [amount |-> 0, billingKey |-> NoKey]
NoResponse == [status |-> 0, success |-> FALSE, payment |-> NoRow]

\* What the provider holds for a payment id: amount.total, and the billingKey
\* (k1 was paid with a billing key, k2 without one).
AmountOf(paymentId) == IF paymentId = "k1" THEN 10000 ELSE 500
BillingKeyOf(paymentId) == IF paymentId = "k1" THEN "bk" ELSE NoKey

VARIABLES
    ledger,       \* the payment table, in insertion order
    schedules,    \* the provider's pending payment schedules
    clock,        \* the latest instant any operation has read
    inv,          \* per invocation of POST: position and locals
    resp,         \* per invocation of POST: the response returned
    hook,         \* usePaymentStatus: the state the hook holds
    hookNow,      \* usePaymentStatus: the instant it read
    zone          \* the server's local time zone: minutes ahead of UTC

vars == <<ledger, schedules, clock, inv, resp, hook, hookNow, zone>>

\* ----------------------------------------------------------- the webhook
\* Locals of one invocation before the payload is parsed.
FreshInvocation ==
    [pc |-> "idle",
     payload |-> [payment_id |-> "k1", status |-> "Ready"],
     paymentData |-> NoData,
     fetchOk |-> FALSE,
     window |-> [startAt |-> 0, endAt |-> 0, endGraceAt |-> 0, nextScheduleAt |-> 0],
     minute |-> 0,
     nextScheduleId |-> 0,
     existingPayment |-> NoRow,
     record |-> NoRow,
     scheduleToCancel |-> 0,
     inserts |-> 0,
     registerCalls |-> 0,
     listCalls |-> 0,
     deleteCalls |-> 0,
     lastCall |-> "none"]

\* date.setHours(h, m, 0, 0): the instant on the same local calendar day as t
\* at local time h:m. Zones are fixed offsets (no daylight saving).
SetHours(t, h, m) ==
    ((t + zone) \div DayMinutes) * DayMinutes + h * MinutesPerHour + m - zone

computeWindow_FromEndAt(now, d) ==
    LET endAt == now + PeriodDays * DayMinutes
        endGraceAt == now + GraceDays * DayMinutes
    IN  [startAt |-> now,
         endAt |-> endAt,
         endGraceAt |-> endGraceAt,
         nextScheduleAt |-> SetHours(endAt, ScheduleHour, d)]

\* The billing window of a charge at instant now with minute draw d.
computeWindow(now, d) ==
    LET endAt == now + PeriodDays * DayMinutes
        endGraceAt == now + GraceDays * DayMinutes
        nextDay == endAt + DayMinutes
    IN  [startAt |-> now,
         endAt |-> endAt,
         endGraceAt |-> endGraceAt,
         nextScheduleAt |-> SetHours(nextDay, ScheduleHour, d)]

\* The values of the row a Paid event inserts.
PaidInsertValues(paymentId, paymentData, w, sid) ==
    [transaction_key |-> paymentId,
     amount |-> paymentData.amount,
     status |-> "Paid",
     start_at |-> w.startAt,
     end_at |-> w.endAt,
     end_grace_at |-> w.endGraceAt,
     next_schedule_at |-> w.nextScheduleAt,
     next_schedule_id |-> sid]

CancelInsertValues_SameSign(existingPayment) ==
    [transaction_key |-> existingPayment.transaction_key,
     amount |-> existingPayment.amount,
     status |-> "Cancel",
     start_at |-> existingPayment.start_at,
     end_at |-> existingPayment.end_at,
     end_grace_at |-> existingPayment.end_grace_at,
     next_schedule_at |-> existingPayment.next_schedule_at,
     next_schedule_id |-> existingPayment.next_schedule_id]

\* The values of the row a Cancelled event inserts.
CancelInsertValues(existingPayment) ==
    [transaction_key |-> existingPayment.transaction_key,
     amount |-> 0 - existingPayment.amount,
     status |-> "Cancel",
     start_at |-> existingPayment.start_at,
     end_at |-> existingPayment.end_at,
     end_grace_at |-> existingPayment.end_grace_at,
     next_schedule_at |-> existingPayment.next_schedule_at,
     next_schedule_id |-> existingPayment.next_schedule_id]

\* supabase.from('payment').insert(values).select().single(): the stored row.
StoredRow(l, values, at) ==
    [id |-> Len(l) + 1,
     transaction_key |-> values.transaction_key,
     amount |-> values.amount,
     status |-> values.status,
     start_at |-> values.start_at,
     end_at |-> values.end_at,
     end_grace_at |-> values.end_grace_at,
     next_schedule_at |-> values.next_schedule_at,
     next_schedule_id |-> values.next_schedule_id,
     created_at |-> at]

LedgerInsert_Upsert(l, row) ==
    IF \E i \in 1..Len(l) : l[i].transaction_key = row.transaction_key
    THEN LET i == CHOOSE j \in 1..Len(l) : l[j].transaction_key = row.transaction_key
         IN  [l EXCEPT ![i] = row]
    ELSE Append(l, row)

\* The table after the insert.
LedgerInsert(l, row) == Append(l, row)

SelectExisting_AnyKey(l, paymentId) ==
    LET paid == {i \in 1..Len(l) : l[i].status = "Paid"}
    IN  {l[i] : i \in {j \in paid : \A k \in paid : l[k].created_at <= l[j].created_at}}

\* .eq('transaction_key', id).eq('status','Paid').order('created_at' desc).limit(1):
\* the rows the store may return (rows with equal created_at come in any order).
SelectExisting(l, paymentId) ==
    LET paid == {i \in 1..Len(l) :
                    l[i].transaction_key = paymentId /\ l[i].status = "Paid"}
    IN  {l[i] : i \in {j \in paid : \A k \in paid : l[k].created_at <= l[j].created_at}}

FetchBranch_NoOkCheck(ok, status) ==
    IF status = "Paid" THEN "insertPaid"
    ELSE IF status = "Cancelled" THEN "select"
    ELSE "ack"

\* Where POST goes after the payment lookup.
FetchBranch(ok, status) ==
    IF ~ok THEN "error"
    ELSE IF status = "Paid" THEN "insertPaid"
    ELSE IF status = "Cancelled" THEN "select"
    ELSE "ack"

PaidAfterInsert_AlwaysSchedule(insertOk, billingKey) ==
    IF ~insertOk THEN "error" ELSE "schedule"

\* Where the Paid scenario goes after its insert.
PaidAfterInsert(insertOk, billingKey) ==
    IF ~insertOk THEN "error"
    ELSE IF billingKey # NoKey THEN "schedule"
    ELSE "ok"

\* How the Paid scenario ends after the schedule registration call.
RegisterEnd(outcome) ==
    IF outcome = "throw" THEN "error" ELSE "ok"

\* Where the Cancelled scenario goes after its lookup.
SelectBranch(selectOk, found) ==
    IF ~selectOk \/ found = {} THEN "error" ELSE "insertCancel"

CancelAfterInsert_IgnoreError(insertOk, next_schedule_id, billingKey) ==
    IF next_schedule_id # 0 /\ billingKey # NoKey THEN "list"
    ELSE IF ~insertOk THEN "error"
    ELSE "ok"

\* Where the Cancelled scenario goes after its insert.
CancelAfterInsert(insertOk, next_schedule_id, billingKey) ==
    IF ~insertOk THEN "error"
    ELSE IF next_schedule_id # 0 /\ billingKey # NoKey THEN "list"
    ELSE "ok"

\* GET /payment-schedules with filter {billingKey, from, until}.
ListSchedules(s, billingKey, from, until) ==
    {x \in s : x.billingKey = billingKey /\ from <= x.timeToPay /\ x.timeToPay <= until}

FindSchedule_AnyItem(items, next_schedule_id) == items

\* schedulesData.items?.find(item => item.paymentId === next_schedule_id)
FindSchedule(items, next_schedule_id) ==
    {x \in items : x.paymentId = next_schedule_id}

CancelSyncEnd_Rethrow(outcome) ==
    IF outcome = "throw" THEN "error" ELSE "ok"

\* How the Cancelled scenario ends after the listing / deletion calls: every
\* failure is caught and logged.
CancelSyncEnd(outcome) == "ok"

OkResponse(payment) == [status |-> 200, success |-> TRUE, payment |-> payment]
AckResponse == [status |-> 200, success |-> TRUE, payment |-> NoRow]
ErrorResponse == [status |-> 500, success |-> FALSE, payment |-> NoRow]

\* The response of an invocation that ends in `end` having inserted `payment`.
EndResponse(end, payment) ==
    IF end = "error" THEN ErrorResponse
    ELSE IF end = "ack" THEN AckResponse
    ELSE OkResponse(payment)

Ended(end) == end \in {"error", "ack", "ok"}

\* randomUUID(): an identifier no row, schedule or running invocation holds.
FreshUUID ==
    LET used == {ledger[i].next_schedule_id : i \in 1..Len(ledger)}
                  \cup {inv[p].nextScheduleId : p \in Procs}
                  \cup {x.paymentId : x \in schedules}
    IN  CHOOSE n \in 1..(Cardinality(used) + 1) : n \notin used

\* inv and resp after invocation p moves to `next` with locals `loc`.
Continue(p, next, loc) ==
    /\ inv' = [inv EXCEPT ![p] = [loc EXCEPT !.pc = IF Ended(next) THEN "done" ELSE next]]
    /\ resp' = [resp EXCEPT ![p] = IF Ended(next) THEN EndResponse(next, loc.record)
                                   ELSE resp[p]]

\* ------------------------------------------------------ usePaymentStatus
\* Dates are instants >= 0; NoTime is an absent (falsy) value and BadDate a
\* string that new Date() parses to an Invalid Date.
NoTime == 0 - 1
BadDate == 0 - 2

\* Truthiness of a date field.
Truthy(d) == d # NoTime

\* new Date(a) > new Date(b): false when either is an Invalid Date.
DateGT(a, b) == a >= 0 /\ b >= 0 /\ a > b

\* new Date(a) <= new Date(b): false when either is an Invalid Date.
DateLE(a, b) == a >= 0 /\ b >= 0 /\ a <= b

\* One pass of the grouping loop: the Map (entries in insertion order) after
\* it has seen payment.
GroupStep(g, payment) ==
    LET at == {i \in 1..Len(g) : g[i].transaction_key = payment.transaction_key}
    IN  IF at = {} THEN Append(g, payment)
        ELSE LET i == CHOOSE j \in at : TRUE
                 existing == g[i]
             IN  IF /\ Truthy(payment.created_at)
                    /\ Truthy(existing.created_at)
                    /\ DateGT(payment.created_at, existing.created_at)
                 THEN [g EXCEPT ![i] = payment]
                 ELSE g

RECURSIVE GroupFrom(_, _, _)
GroupFrom(g, rows, i) ==
    IF i > Len(rows) THEN g ELSE GroupFrom(GroupStep(g, rows[i]), rows, i + 1)

\* groupedPayments.values() after the loop over payments.
groupedPayments(rows) == GroupFrom(<<>>, rows, 1)

IsActive_AnyStatus(payment, t) ==
    /\ DateLE(payment.start_at, t)
    /\ DateLE(t, payment.end_grace_at)

\* The filter predicate of activePayments.
IsActive(payment, t) ==
    /\ payment.status = "Paid"
    /\ DateLE(payment.start_at, t)
    /\ DateLE(t, payment.end_grace_at)

\* The indices of the grouped rows that pass the filter, in Map order.
activePayments(g, t) == {i \in 1..Len(g) : IsActive(g[i], t)}

Compare_Ascending(a, b) ==
    IF ~Truthy(a.created_at) \/ ~Truthy(b.created_at) THEN 0
    ELSE IF a.created_at < 0 \/ b.created_at < 0 THEN 0
    ELSE a.created_at - b.created_at

\* The sort comparator: 0 when a created_at is falsy or the difference is NaN.
Compare(a, b) ==
    IF ~Truthy(a.created_at) \/ ~Truthy(b.created_at) THEN 0
    ELSE IF a.created_at < 0 \/ b.created_at < 0 THEN 0
    ELSE b.created_at - a.created_at

\* The comparator orders the active rows consistently (equality is transitive).
ConsistentOrder(g, act) ==
    \A i, j, k \in act :
        Compare(g[i], g[j]) = 0 /\ Compare(g[j], g[k]) = 0 => Compare(g[i], g[k]) = 0

\* activePayments.sort(...)[0]: the rows that may come first. A stable sort
\* puts the earliest of the greatest rows first; under an inconsistent
\* comparator the order is implementation-defined.
latestPayment(g, act) ==
    IF ConsistentOrder(g, act)
    THEN {g[i] : i \in {j \in act :
                     /\ \A k \in act : Compare(g[j], g[k]) <= 0
                     /\ \A k \in act : k < j => Compare(g[k], g[j]) > 0}}
    ELSE {g[i] : i \in act}

Subscribed(key) == [subscriptionStatus |-> "subscribed", transactionKey |-> key,
                    isLoading |-> FALSE, error |-> FALSE]
Free == [subscriptionStatus |-> "free", transactionKey |-> "null",
         isLoading |-> FALSE, error |-> FALSE]
FetchFailed == [subscriptionStatus |-> "free", transactionKey |-> "null",
                isLoading |-> FALSE, error |-> TRUE]
Loading == [subscriptionStatus |-> "free", transactionKey |-> "null",
            isLoading |-> TRUE, error |-> FALSE]

\* The states the hook may end in for the rows in the order given and instant t.
Resolve(rows, t) ==
    IF Len(rows) = 0 THEN {Free}
    ELSE LET g == groupedPayments(rows)
             act == activePayments(g, t)
         IN  IF act # {} THEN {Subscribed(r.transaction_key) : r \in latestPayment(g, act)}
             ELSE {Free}

\* Every order of the rows of l at the indices in S.
RECURSIVE OrdersFrom(_, _)
OrdersFrom(l, S) ==
    IF S = {} THEN {<<>>}
    ELSE UNION {{<<l[i]>> \o rest : rest \in OrdersFrom(l, S \ {i})} : i \in S}

\* The permutations of the rows of l.
AllOrders(l) == OrdersFrom(l, 1..Len(l))

\* The orders in which the rows of l at the indices in S may be returned,
\* greatest created_at first.
RECURSIVE DescFrom(_, _)
DescFrom(l, S) ==
    IF S = {} THEN {<<>>}
    ELSE UNION {{<<l[i]>> \o rest : rest \in DescFrom(l, S \ {i})} :
                  i \in {j \in S : \A k \in S : l[k].created_at <= l[j].created_at}}

\* .order("created_at", {ascending: false}): the orders the store may return
\* (rows with equal created_at come in any order).
OrderedDesc(l) == DescFrom(l, 1..Len(l))

Init ==
    /\ ledger = <<>>
    /\ schedules = {}
    /\ clock = 0
    /\ inv = [p \in Procs |-> FreshInvocation]
    /\ resp = [p \in Procs |-> NoResponse]
    /\ hook = Loading
    /\ hookNow = 0
    /\ zone = ServerZone

\* No invocation is at the point of handing back its response, and the hook
\* shows no result. Handing back a response and remounting touch neither the
\* table nor the provider, so the model takes them before any other step.
Quiet == hook.isLoading /\ \A q \in Procs : inv[q].pc # "done"

\* Invocation p has handed back its response; its locals are gone.
Return(p) ==
    /\ inv[p].pc = "done"
    /\ inv' = [inv EXCEPT ![p] = FreshInvocation]
    /\ resp' = [resp EXCEPT ![p] = NoResponse]
    /\ UNCHANGED <<ledger, schedules, clock, hook, hookNow, zone>>

\* A delivery arrives: POST parses the payload, looks the payment up at the
\* provider (GET /payments/{paymentId}) and branches on payload.status.
Receive(p) ==
    /\ Quiet
    /\ inv[p].pc = "idle"
    /\ Len(ledger) < MaxLedger
    /\ \E id \in PaymentIds, st \in EventStatuses, out \in FetchOutcomes :
          LET ok == out # "fail"
              data == IF ok
                      THEN [amount |-> AmountOf(id),
                            billingKey |-> BillingKeyOf(id)]
                      ELSE NoData
          IN  Continue(p, FetchBranch(ok, st),
                 [FreshInvocation EXCEPT
                     !.payload = [payment_id |-> id, status |-> st],
                     !.fetchOk = ok,
                     !.paymentData = data])
    /\ UNCHANGED <<ledger, schedules, clock, hook, hookNow, zone>>

\* Paid 3-1, 3-2: the dates, the schedule id and the insert into the payment
\* table, which the store stamps with created_at; the minute is drawn from
\* draws, the time elapsed from elapsed, and no instant after horizon is read.
PaidInsert(p, draws, elapsed, horizon) ==
    /\ Quiet
    /\ inv[p].pc = "insertPaid"
    /\ \E out \in InsertOutcomes, d \in draws, e \in elapsed :
          LET ok == out = "ok"
              now == clock + e
              w == computeWindow(now, d)
              sid == FreshUUID
              row == StoredRow(ledger,
                        PaidInsertValues(inv[p].payload.payment_id, inv[p].paymentData,
                                         w, sid),
                        now)
          IN  /\ now <= horizon
              /\ clock' = IF ok THEN now ELSE clock
              /\ ledger' = IF ok THEN LedgerInsert(ledger, row) ELSE ledger
              /\ Continue(p, PaidAfterInsert(ok, inv[p].paymentData.billingKey),
                    [inv[p] EXCEPT
                        !.window = w,
                        !.minute = d,
                        !.nextScheduleId = sid,
                        !.record = IF ok THEN row ELSE @,
                        !.inserts = IF ok THEN @ + 1 ELSE @])
    /\ UNCHANGED <<schedules, hook, hookNow, zone>>

InsertPaid(p) == PaidInsert(p, MinuteDraws, Elapsed, MaxClock)

\* The id the provider gives the schedule it creates for a payment id.
ScheduleIdOf(paymentId) == 100 + paymentId

\* Paid 3-3: POST /payments/{nextScheduleId}/schedule.
RegisterSchedule(p) ==
    /\ Quiet
    /\ inv[p].pc = "schedule"
    /\ \E out \in CallOutcomes :
          /\ schedules' = IF out = "ok"
                          THEN schedules \cup
                                 {[id |-> ScheduleIdOf(inv[p].nextScheduleId),
                                   paymentId |-> inv[p].nextScheduleId,
                                   billingKey |-> inv[p].paymentData.billingKey,
                                   timeToPay |-> inv[p].window.nextScheduleAt]}
                          ELSE schedules
          /\ Continue(p, RegisterEnd(out),
                [inv[p] EXCEPT !.registerCalls = @ + 1, !.lastCall = out])
    /\ UNCHANGED <<ledger, clock, hook, hookNow, zone>>

\* Cancelled 3-1: the lookup of the latest Paid row of the payment id.
SelectPaid(p) ==
    /\ Quiet
    /\ inv[p].pc = "select"
    /\ \E out \in SelectOutcomes :
          LET found == SelectExisting(ledger, inv[p].payload.payment_id)
              next == SelectBranch(out = "ok", found)
          IN  IF next = "error"
              THEN Continue(p, next, inv[p])
              ELSE \E row \in found :
                      Continue(p, next, [inv[p] EXCEPT !.existingPayment = row])
    /\ UNCHANGED <<ledger, schedules, clock, hook, hookNow, zone>>

\* Cancelled 3-2: the insert of the cancellation row.
InsertCancel(p) ==
    /\ Quiet
    /\ inv[p].pc = "insertCancel"
    /\ \E out \in InsertOutcomes, e \in Elapsed :
          LET ok == out = "ok"
              now == clock + e
              row == StoredRow(ledger, CancelInsertValues(inv[p].existingPayment), now)
          IN  /\ now <= MaxClock
              /\ clock' = IF ok THEN now ELSE clock
              /\ ledger' = IF ok THEN LedgerInsert(ledger, row) ELSE ledger
              /\ Continue(p, CancelAfterInsert(ok, inv[p].existingPayment.next_schedule_id,
                                               inv[p].paymentData.billingKey),
                    [inv[p] EXCEPT
                        !.record = IF ok THEN row ELSE @,
                        !.inserts = IF ok THEN @ + 1 ELSE @])
    /\ UNCHANGED <<schedules, hook, hookNow, zone>>

\* Cancelled 3-3-1/2: GET /payment-schedules and the search for the schedule.
ListAndFind(p) ==
    /\ Quiet
    /\ inv[p].pc = "list"
    /\ \E out \in {"ok", "throw"} :
          LET at == inv[p].existingPayment.next_schedule_at
              items == ListSchedules(schedules, inv[p].paymentData.billingKey,
                                     at - DayMinutes, at + DayMinutes)
              hit == FindSchedule(items, inv[p].existingPayment.next_schedule_id)
              loc == [inv[p] EXCEPT !.listCalls = @ + 1, !.lastCall = out]
          IN  IF out = "ok" /\ hit # {}
              THEN \E x \in hit :
                      Continue(p, "delete", [loc EXCEPT !.scheduleToCancel = x.id])
              ELSE Continue(p, CancelSyncEnd(IF out = "ok" THEN "notFound" ELSE out), loc)
    /\ UNCHANGED <<ledger, schedules, clock, hook, hookNow, zone>>

\* Cancelled 3-3-3: DELETE /payment-schedules {scheduleIds: [id]}.
DeleteSchedule(p) ==
    /\ Quiet
    /\ inv[p].pc = "delete"
    /\ \E out \in CallOutcomes :
          /\ schedules' = IF out = "ok"
                          THEN {x \in schedules : x.id # inv[p].scheduleToCancel}
                          ELSE schedules
          /\ Continue(p, CancelSyncEnd(out),
                [inv[p] EXCEPT !.deleteCalls = @ + 1, !.lastCall = out])
    /\ UNCHANGED <<ledger, clock, hook, hookNow, zone>>

\* The effect of usePaymentStatus: the query, the grouping, the filter and the
\* resulting hook state. The query is one atomic read of the table, so the
\* model takes it at the points where no invocation of POST is under way.
fetchPaymentStatus ==
    /\ hook.isLoading
    /\ \A q \in Procs : inv[q].pc = "idle"
    /\ \E out \in SelectOutcomes, e \in NowOffsets :
          /\ hookNow' = clock + e
          /\ hook' \in IF out = "ok"
                       THEN UNION {Resolve(rows, clock + e) : rows \in OrderedDesc(ledger)}
                       ELSE {FetchFailed}
    /\ UNCHANGED <<ledger, schedules, clock, inv, resp, zone>>

\* The component is mounted anew: the hook starts over.
Remount ==
    /\ ~hook.isLoading
    /\ hook' = Loading
    /\ hookNow' = 0
    /\ UNCHANGED <<ledger, schedules, clock, inv, resp, zone>>

Next ==
    \/ \E p \in Procs : Receive(p)
    \/ \E p \in Procs : InsertPaid(p)
    \/ \E p \in Procs : RegisterSchedule(p)
    \/ \E p \in Procs : SelectPaid(p)
    \/ \E p \in Procs : InsertCancel(p)
    \/ \E p \in Procs : ListAndFind(p)
    \/ \E p \in Procs : DeleteSchedule(p)
    \/ \E p \in Procs : Return(p)
    \/ fetchPaymentStatus
    \/ Remount

Spec == Init /\ [][Next]_vars

\* ------------------------------------------- the billing window on its own
\* A Paid event for k1 whose payment lookup succeeded is about to compute its
\* dates, at any of the charge instants, on a server in any of the zones.
InitWindow ==
    /\ ledger = <<>>
    /\ schedules = {}
    /\ clock \in ChargeInstants
    /\ zone \in ZoneOffsets
    /\ inv = [p \in Procs |->
                IF p = 1
                THEN [FreshInvocation EXCEPT
                         !.pc = "insertPaid",
                         !.payload = [payment_id |-> "k1", status |-> "Paid"],
                         !.fetchOk = TRUE,
                         !.paymentData = [amount |-> AmountOf("k1"),
                                          billingKey |-> BillingKeyOf("k1")]]
                ELSE FreshInvocation]
    /\ resp = [p \in Procs |-> NoResponse]
    /\ hook = Loading
    /\ hookNow = 0

\* The Paid insert at the charge instant with any minute draw.
ChargeAt == PaidInsert(1, AllMinuteDraws, {0}, clock)

NextWindow == ChargeAt

SpecWindow == InitWindow /\ [][NextWindow]_vars

\* ------------------------------------------------ the resolver on its own
\* The rows the query hands to the hook: per payment id a Paid row of either
\* period, a Paid row whose start_at or end_grace_at does not parse, or a
\* cancellation row, with created_at absent, unparsable or an instant.
RowPeriods == {<<2, 3>>, <<4, 5>>}
RowShapes ==
    {[status |-> "Paid", start_at |-> w[1], end_grace_at |-> w[2]] : w \in RowPeriods}
      \cup {[status |-> "Paid", start_at |-> BadDate, end_grace_at |-> 3],
            [status |-> "Paid", start_at |-> 2, end_grace_at |-> BadDate],
            [status |-> "Cancel", start_at |-> 2, end_grace_at |-> 3]}
RowStamps == {NoTime, BadDate, 1, 2, 3}
ReadInstants == {1, 2, 4}

QueryRows ==
    {[id |-> 0,
      transaction_key |-> k,
      amount |-> AmountOf(k),
      status |-> sh.status,
      start_at |-> sh.start_at,
      end_at |-> sh.end_grace_at,
      end_grace_at |-> sh.end_grace_at,
      next_schedule_at |-> sh.end_grace_at,
      next_schedule_id |-> 0,
      created_at |-> at] : k \in PaymentIds, sh \in RowShapes, at \in RowStamps}

\* ledger holds the rows in the order the query returned them.
InitResolver ==
    /\ ledger \in UNION {[1..n -> QueryRows] : n \in 0..MaxRows}
    /\ hookNow \in ReadInstants
    /\ hook = Loading
    /\ schedules = {}
    /\ clock = 0
    /\ inv = [p \in Procs |-> FreshInvocation]
    /\ resp = [p \in Procs |-> NoResponse]
    /\ zone = ServerZone

\* The hook's effect on the rows at the instant hookNow.
resolveRows ==
    /\ hook.isLoading
    /\ hook' \in Resolve(ledger, hookNow)
    /\ UNCHANGED <<ledger, schedules, clock, inv, resp, hookNow, zone>>

NextResolver == resolveRows

SpecResolver == InitResolver /\ [][NextResolver]_vars

\* ------------------------------------------------------------- properties
Done(p) == inv[p].pc = "done"
Event(p) == inv[p].payload.status
Key(p) == inv[p].payload.payment_id
ProviderCalls(p) == inv[p].registerCalls + inv[p].listCalls + inv[p].deleteCalls
PaidRowsOf(l, k) == {i \in 1..Len(l) : l[i].transaction_key = k /\ l[i].status = "Paid"}

\* C1: the ledger is append-only. Every step leaves each existing row as it
\* was and adds at most one row, and no invocation of the webhook inserts more
\* than one row.
C1_AppendOnly ==
    /\ [](\A p \in Procs : inv[p].inserts <= 1)
    /\ [][/\ Len(ledger') \in {Len(ledger), Len(ledger) + 1}
          /\ \A i \in 1..Len(ledger) : ledger'[i] = ledger[i]]_vars

\* C1 witness: a cancellation row has been appended to a ledger holding the
\* Paid row it cancels, and the status has been read.
C1_Witness ==
    /\ ~hook.isLoading
    /\ \E i, j \in 1..Len(ledger) :
          i < j /\ ledger[i].status = "Paid" /\ ledger[j].status = "Cancel"
                /\ ledger[i].transaction_key = ledger[j].transaction_key

\* C2: a Paid or Cancelled event whose payment lookup fails ends in the error
\* response, having inserted nothing and called no schedule endpoint, and the
\* step that ends it leaves the ledger and the provider's schedules as they were.
C2_FetchFailureAborts ==
    /\ [](\A p \in Procs :
            Done(p) /\ Event(p) \in {"Paid", "Cancelled"} /\ ~inv[p].fetchOk
              => resp[p] = ErrorResponse /\ inv[p].inserts = 0 /\ ProviderCalls(p) = 0)
    /\ [][\A p \in Procs :
            ~Done(p) /\ inv'[p].pc = "done" /\ ~inv'[p].fetchOk
              => ledger' = ledger /\ schedules' = schedules]_vars

\* C2 witness: a Paid delivery has ended on a failed lookup while the ledger
\* already holds a row.
C2_Witness ==
    \E p \in Procs : Done(p) /\ Event(p) = "Paid" /\ ~inv[p].fetchOk /\ Len(ledger) > 0

\* C3: a Cancelled event for a payment id with no Paid row of that
\* transaction key ends in the failure response with no insert and no
\* schedule call.
C3_NothingToCancel ==
    \A p \in Procs :
        Done(p) /\ Event(p) = "Cancelled" /\ PaidRowsOf(ledger, Key(p)) = {}
          => resp[p] = ErrorResponse /\ inv[p].inserts = 0 /\ ProviderCalls(p) = 0

\* C3 witness: the lookup of the provider succeeded and the ledger holds a Paid
\* row, but of another transaction key.
C3_Witness ==
    \E p \in Procs :
        /\ Done(p) /\ Event(p) = "Cancelled" /\ inv[p].fetchOk
        /\ PaidRowsOf(ledger, Key(p)) = {}
        /\ \E i \in 1..Len(ledger) : ledger[i].status = "Paid"

\* C4: the lookup of a Cancelled event yields a Paid row of the event's
\* transaction key whose created_at is greatest among those rows at that
\* time; the row the event inserts copies its key, period and schedule fields
\* and negates its amount; and the Paid row stays in the ledger as it was.
C4_CancelCopiesLatestPaid ==
    /\ [][\A p \in Procs :
            inv[p].pc = "select" /\ inv'[p].pc = "insertCancel"
              => \E i \in PaidRowsOf(ledger, Key(p)) :
                    /\ inv'[p].existingPayment = ledger[i]
                    /\ \A k \in PaidRowsOf(ledger, Key(p)) :
                          ledger[k].created_at <= ledger[i].created_at]_vars
    /\ [](\A p \in Procs :
            Event(p) = "Cancelled" /\ inv[p].inserts = 1
              => LET old == inv[p].existingPayment
                     new == inv[p].record
                 IN  /\ ledger[new.id] = new
                     /\ ledger[old.id] = old
                     /\ old.status = "Paid"
                     /\ new.transaction_key = old.transaction_key
                     /\ new.transaction_key = Key(p)
                     /\ new.start_at = old.start_at
                     /\ new.end_at = old.end_at
                     /\ new.end_grace_at = old.end_grace_at
                     /\ new.next_schedule_at = old.next_schedule_at
                     /\ new.next_schedule_id = old.next_schedule_id
                     /\ new.amount = 0 - old.amount)

\* C4 witness: a cancellation row has been inserted for the later of two Paid
\* rows of one transaction key.
C4_Witness ==
    \E p \in Procs :
        /\ Event(p) = "Cancelled" /\ inv[p].inserts = 1
        /\ \E i \in PaidRowsOf(ledger, Key(p)) :
              ledger[i].created_at < inv[p].existingPayment.created_at

\* C5: every row of the ledger has status Paid or Cancelled.
C5_StatusInEnum ==
    \A i \in 1..Len(ledger) : ledger[i].status \in {"Paid", "Cancelled"}

\* C6: a Paid event whose insert succeeded ends in the success response
\* carrying the inserted record, whatever the schedule registration did.
C6_RegistrationFailureNonFatal ==
    \A p \in Procs :
        Done(p) /\ Event(p) = "Paid" /\ inv[p].inserts = 1
          => resp[p] = OkResponse(inv[p].record)

\* C7: a Cancelled event whose insert succeeded ends in the success response
\* carrying the cancellation record, whatever the listing and the deletion did.
C7_CancelSyncFailureSwallowed ==
    \A p \in Procs :
        Done(p) /\ Event(p) = "Cancelled" /\ inv[p].inserts = 1
          => resp[p] = OkResponse(inv[p].record) /\ inv[p].record.status # "Paid"

\* C7 witness: the deletion request of a Cancelled event failed outright.
C7_Witness ==
    \E p \in Procs :
        /\ Done(p) /\ Event(p) = "Cancelled" /\ inv[p].inserts = 1
        /\ inv[p].deleteCalls = 1 /\ inv[p].lastCall = "throw"

\* C8: a Paid event calls schedule registration at most once; when it ends it
\* has called it exactly if its insert succeeded and the payment carries a
\* billing key; and with no billing key a successful insert ends in success.
C8_RegistrationIffToken ==
    \A p \in Procs :
        Event(p) = "Paid" =>
          /\ inv[p].registerCalls <= 1
          /\ inv[p].registerCalls = 1 => inv[p].inserts = 1
          /\ Done(p) =>
                (inv[p].registerCalls = 1
                   <=> inv[p].inserts = 1 /\ inv[p].paymentData.billingKey # NoKey)
          /\ Done(p) /\ inv[p].inserts = 1 /\ inv[p].paymentData.billingKey = NoKey
                => resp[p] = OkResponse(inv[p].record) /\ ledger[inv[p].record.id] = inv[p].record

\* C8 witness: a Paid event without billing key has inserted its row and ended.
C8_Witness ==
    \E p \in Procs :
        /\ Done(p) /\ Event(p) = "Paid" /\ inv[p].inserts = 1
        /\ inv[p].paymentData.billingKey = NoKey

\* C9: an event whose status is neither Paid nor Cancelled ends in the plain
\* acknowledgement and writes no row.
C9_OtherStatusAcknowledged ==
    \A p \in Procs :
        Done(p) /\ Event(p) \notin {"Paid", "Cancelled"}
          => resp[p] = AckResponse /\ inv[p].inserts = 0

\* C10: whatever the order of the rows, the hook resolves the same status and
\* transaction key.
C10_OrderIndependent ==
    ~hook.isLoading /\ ~hook.error
      => \A rows \in AllOrders(ledger) : Resolve(rows, hookNow) = {hook}

\* An instant read on the server's local clock.
LocalTime(t) == t + zone

\* The Paid row invocation p has written.
WrotePaidRow(p) == Event(p) = "Paid" /\ inv[p].inserts = 1

C20_NextChargeWithinGrace ==
    \A p \in Procs :
        WrotePaidRow(p) =>
            /\ inv[p].record.end_at < inv[p].record.next_schedule_at
            /\ inv[p].record.next_schedule_at <= inv[p].record.end_grace_at

\* Every created_at of l is an instant and no two rows share one.
DistinctStamps(l) ==
    /\ \A i \in 1..Len(l) : l[i].created_at >= 0
    /\ \A i, j \in 1..Len(l) : i # j => l[i].created_at # l[j].created_at

\* Row i of l is the current row of its payment id: the latest of its lineage.
CurrentRow(l, i) ==
    \A j \in 1..Len(l) :
        l[j].transaction_key = l[i].transaction_key => l[j].created_at <= l[i].created_at

\* Row r is Paid and instant t lies in its period, grace included.
Qualifies(r, t) ==
    /\ r.status = "Paid"
    /\ r.start_at >= 0 /\ r.end_grace_at >= 0
    /\ r.start_at <= t /\ t <= r.end_grace_at

\* C11: for rows with distinct createdAt and any now, the resolver returns
\* subscribed exactly when the current row of some payment id is Paid with
\* startAt <= now <= endGraceAt, with the key of the latest-created such row;
\* otherwise (the empty ledger included) it returns free with no key.
C11_ResolverContract ==
    ~hook.isLoading /\ DistinctStamps(ledger) =>
        LET Q == {i \in 1..Len(ledger) :
                     CurrentRow(ledger, i) /\ Qualifies(ledger[i], hookNow)}
        IN  IF Q = {} THEN hook = Free
            ELSE \E i \in Q :
                    /\ \A j \in Q : ledger[j].created_at <= ledger[i].created_at
                    /\ hook = Subscribed(ledger[i].transaction_key)

\* Two payment ids whose current rows both qualify, the later-created one
\* returned second: its key is the one resolved.
C11_Witness ==
    /\ ~hook.isLoading
    /\ DistinctStamps(ledger)
    /\ Len(ledger) = 2
    /\ ledger[1].transaction_key # ledger[2].transaction_key
    /\ Qualifies(ledger[1], hookNow) /\ Qualifies(ledger[2], hookNow)
    /\ ledger[1].created_at < ledger[2].created_at
    /\ hook = Subscribed(ledger[2].transaction_key)

\* C12: a row with an unparsable date in any of its date fields (startAt,
\* endGraceAt or createdAt) is treated as non-active: whenever the resolver
\* returns subscribed, a Paid row of the resolved key whose period holds now
\* and whose three dates all parse is among the rows.
C12_MalformedRowNeverSubscribes ==
    ~hook.isLoading /\ hook.subscriptionStatus = "subscribed" =>
        \E i \in 1..Len(ledger) :
            /\ ledger[i].transaction_key = hook.transactionKey
            /\ Qualifies(ledger[i], hookNow)
            /\ ledger[i].created_at # BadDate

\* The Paid row of invocation p is in the ledger and no other Paid row of its
\* payment id carries its next_schedule_id.
OwnFreshPaidRow(p) ==
    LET r == inv[p].record
    IN  /\ r.id \in 1..Len(ledger)
        /\ ledger[r.id] = r
        /\ r.transaction_key = Key(p)
        /\ \A j \in PaidRowsOf(ledger, Key(p)) \ {r.id} :
              ledger[j].next_schedule_id # r.next_schedule_id

\* C14: deliveries are not deduplicated. Each delivery of a Paid event whose
\* payment lookup and insert succeed adds its own Paid row with the same
\* transactionKey and a fresh nextScheduleId, and each delivery is answered
\* with success, also when the payment id already has a Paid row.
C14_DuplicatePaidDeliveries ==
    \A p \in Procs :
        WrotePaidRow(p) =>
            /\ OwnFreshPaidRow(p)
            /\ Done(p) => resp[p].success

\* C15: within one invocation a provider schedule call (the registration on
\* Paid, the listing and the deletion on Cancelled) is issued only after that
\* invocation's insert succeeded; an invocation whose insert failed ends in
\* the error response having made no provider schedule call.
C15_ScheduleCallsAfterInsert ==
    \A p \in Procs :
        /\ (ProviderCalls(p) > 0 \/ inv[p].pc \in {"schedule", "list", "delete"})
              => inv[p].inserts = 1
        /\ (Done(p) /\ Event(p) \in {"Paid", "Cancelled"} /\ inv[p].inserts = 0)
              => resp[p] = ErrorResponse /\ ProviderCalls(p) = 0

\* A Paid event with a billing token whose lookup succeeded and whose insert
\* failed has ended.
C15_Witness ==
    \E p \in Procs :
        /\ Done(p) /\ Event(p) = "Paid" /\ inv[p].fetchOk
        /\ inv[p].paymentData.billingKey # NoKey
        /\ inv[p].inserts = 0
        /\ resp[p] = ErrorResponse

\* C16: a Cancelled event requests the deletion of at most one schedule, and
\* only of a schedule the listing returned whose paymentId equals the
\* nextScheduleId of the Paid row being cancelled; without a nextScheduleId or
\* a billing token it makes neither the listing nor the deletion call.
C16_DeletesOnlyMatchedSchedule ==
    [][\A p \in Procs :
          /\ inv'[p].listCalls <= 1 /\ inv'[p].deleteCalls <= 1
          /\ (inv[p].pc = "list" /\ inv'[p].pc = "delete") =>
                \E x \in schedules :
                    /\ x.id = inv'[p].scheduleToCancel
                    /\ x.billingKey = inv[p].paymentData.billingKey
                    /\ x.paymentId = inv[p].existingPayment.next_schedule_id
                    /\ inv[p].existingPayment.status = "Paid"
                    /\ inv[p].existingPayment.transaction_key = Key(p)
          /\ Cardinality(schedules \ schedules') <= 1
          /\ \A x \in schedules \ schedules' :
                \E q \in Procs :
                    /\ inv[q].pc = "delete" /\ inv'[q].pc # "delete"
                    /\ Event(q) = "Cancelled"
                    /\ x.id = inv[q].scheduleToCancel
          /\ (Event(p) = "Cancelled" /\ inv'[p].inserts = 1
                /\ (inv'[p].existingPayment.next_schedule_id = 0
                      \/ inv'[p].paymentData.billingKey = NoKey))
                => inv'[p].listCalls = 0 /\ inv'[p].deleteCalls = 0]_vars

\* A cancellation has deleted the schedule of the row it cancelled while
\* another schedule of the same billing token is still pending.
C16_Witness ==
    \E p \in Procs :
        /\ Done(p) /\ Event(p) = "Cancelled"
        /\ inv[p].deleteCalls = 1 /\ inv[p].lastCall = "ok"
        /\ \A x \in schedules : x.id # inv[p].scheduleToCancel
        /\ \E x \in schedules : x.billingKey = inv[p].paymentData.billingKey

\* The cancellation rows of payment id k in l.
CancelRowsOf(l, k) == {i \in 1..Len(l) : l[i].transaction_key = k /\ l[i].status # "Paid"}

\* C17: for every transactionKey the cancellation rows never outnumber the
\* Paid rows: a Paid row is cancelled at most once.
C17_CancelsWithinPaid ==
    \A k \in PaymentIds :
        Cardinality(CancelRowsOf(ledger, k)) <= Cardinality(PaidRowsOf(ledger, k))

\* The pending schedules registered for the Paid rows of payment id k.
PendingSchedulesOf(k) ==
    {x \in schedules : \E i \in PaidRowsOf(ledger, k) : ledger[i].next_schedule_id = x.paymentId}

\* C18: once a Cancelled event for k has been processed with the billing token
\* present and every provider call succeeding, no schedule registered by a
\* Paid delivery for k is still pending, duplicate Paid deliveries included.
C18_NoScheduleLeftAfterCancel ==
    \A p \in Procs :
        (/\ Done(p) /\ Event(p) = "Cancelled" /\ inv[p].inserts = 1
         /\ inv[p].paymentData.billingKey # NoKey
         /\ inv[p].listCalls = 1 /\ inv[p].lastCall = "ok")
          => PendingSchedulesOf(Key(p)) = {}

\* created_at strictly increases in insertion order.
StampsIncrease(l) == \A i, j \in 1..Len(l) : i < j => l[i].created_at < l[j].created_at

\* Payment id k has a cancellation row and no Paid row appended after it.
CancelledLast(l, k) ==
    \E i \in CancelRowsOf(l, k) : \A j \in PaidRowsOf(l, k) : j < i

\* The instants at which the cancelled key is resolved.
ResolveInstants == {clock + e : e \in NowOffsets} \cup {0, 1, 30 * 1440, 31 * 1440}

\* C19: with created_at strictly increasing in insertion order, once a
\* Cancelled event for k has returned success and while no later Paid row for
\* k is appended, the resolver does not return subscribed with transactionKey
\* k: neither the hook's shown result nor the result at any other instant.
C19_CancelledKeyNotSubscribed ==
    \A k \in PaymentIds :
        (/\ StampsIncrease(ledger)
         /\ CancelledLast(ledger, k)
         /\ \A p \in Procs : inv[p].pc = "idle")
          => /\ ~hook.isLoading => hook # Subscribed(k)
             /\ \A t \in ResolveInstants, rows \in OrderedDesc(ledger) :
                   Subscribed(k) \notin Resolve(rows, t)

\* The hook has resolved, within the period of the Paid row, a ledger in which
\* the Paid row of k1 was cancelled at a later instant.
C19_Witness ==
    /\ StampsIncrease(ledger)
    /\ CancelledLast(ledger, "k1")
    /\ ~hook.isLoading /\ ~hook.error
    /\ hookNow <= ledger[1].end_grace_at
    /\ hook = Free

====
